---------------------------- MODULE Spec2Model ----------------------------
(***************************************************************************)
(* Signal classification and modulation-cycling engine of the drone        *)
(* detector (drone_detection.cpp, kept in src/docusaurus.config.js from    *)
(* line 126 on, with include/drone_detection.h).                           *)
(*                                                                         *)
(* Units.  The code holds frequencies in MHz as floats (902.0f, 915.0f,    *)
(* 928.0f) and adds SWEEP_STEP_KHZ / 1000.0f to the sweep cursor.  The     *)
(* model holds every frequency in kHz as an integer, so FREQ_900_MIN is    *)
(* 902000 and one sweep step adds SWEEP_STEP_KHZ.  RSSI is in whole dBm.   *)
(*                                                                         *)
(* The SX1262 driver is external.  A begin / beginFSK request either       *)
(* succeeds (status RADIOLIB_ERR_NONE) and leaves the receiver configured  *)
(* as requested, or fails with a nonzero status and leaves the receiver as *)
(* it was; which of the two happens is chosen nondeterministically.        *)
(***************************************************************************)
EXTENDS Integers, Sequences, FiniteSets, TLC

VARIABLES
    currentModulation,      \* static ModulationType currentModulation
    isInitialized,          \* static bool isInitialized
    currentSweepFrequency,  \* static float currentSweepFrequency   (kHz)
    sweepComplete,          \* static bool sweepComplete
    receiver,               \* what the SX1262 is configured for
    last,                   \* the most recent call and what it returned
    run,                    \* history: successful switches in a row
    sweepSteps,             \* history: sweep steps since the cursor was reset
    probe,                  \* a call of a pure function and its result
    receivedFlag,           \* volatile bool receivedFlag            (main.cpp)
    sinceModulationSwitch,  \* millis() - lastModulationSwitch       (ms)
    sinceDisplayUpdate,     \* millis() - lastDisplayUpdate          (ms)
    pc,                     \* where setup() / loop() stands
    tick                    \* history of the interrupts and of the current pass

vars == << currentModulation, isInitialized, currentSweepFrequency,
           sweepComplete, receiver, sweepSteps, run, probe,
           receivedFlag, sinceModulationSwitch, sinceDisplayUpdate, pc, tick,
           last >>

shellVars == << receivedFlag, sinceModulationSwitch, sinceDisplayUpdate, pc, tick >>

engineVars == << currentModulation, isInitialized, currentSweepFrequency,
                 sweepComplete, receiver, last, run, sweepSteps >>

-----------------------------------------------------------------------------
(* ModulationType, drone_detection.h *)
MOD_LORA    == "LoRa"
MOD_FSK     == "FSK"
MOD_OOK     == "OOK"
MOD_UNKNOWN == "Unknown"

ModulationType == { MOD_LORA, MOD_FSK, MOD_OOK, MOD_UNKNOWN }

(* Band limits, in kHz *)
FREQ_900_MIN    == 902000
FREQ_900_MAX    == 928000
FREQ_900_CENTER == 915000

(* Sweep increment in kHz.  The macro is used by sweepToNextFrequency but  *)
(* its #define is not part of the sources at hand.                         *)
SWEEP_STEP_KHZ == 2000

(* FSK_FREQUENCY_DEV, and the 0.0 deviation configureOOKMode passes *)
FSK_FREQUENCY_DEV == 50
OOK_FREQUENCY_DEV == 0

(* RadioLib status codes: success is 0; the value of the invalid-call     *)
(* status is RadioLib's, the engine only needs it to be nonzero            *)
RADIOLIB_ERR_NONE         == 0
RADIOLIB_ERR_INVALID_CALL == -21

(* The radio handle: NULL or the SX1262 instance of main.cpp *)
NULL  == "NULL"
RADIO == "radio"
Handles == { NULL, RADIO }

-----------------------------------------------------------------------------
(* Bounds of the model *)

\* length up to which a row of successful switches is counted
MaxRun == 4

\* what the driver may answer: success, or a nonzero status (the engine
\* tells failures from success only, never one failure from another)
DriverCodes == { RADIOLIB_ERR_NONE, -2 }

\* frequencies handed to configure*Mode and switchToNextModulation:
\* SCAN_FREQUENCY of main.cpp, and one frequency outside the band
ScanFrequencies == { FREQ_900_CENTER, 868000 }


-----------------------------------------------------------------------------
(* The engine's module state and the receiver, as one record, so that the  *)
(* routines below are functions from the state before a call to the state  *)
(* after it and the value returned.                                        *)

Engine ==
    [ currentModulation     |-> currentModulation,
      isInitialized         |-> isInitialized,
      currentSweepFrequency |-> currentSweepFrequency,
      sweepComplete         |-> sweepComplete,
      receiver              |-> receiver ]

\* the receiver before any successful begin / beginFSK
Unconfigured == [ configured |-> FALSE, modulation |-> MOD_UNKNOWN, frequency |-> 0 ]

\* what a call hands back: the state after it, the returned value, the
\* number of driver requests it issued and whether it printed the
\* out-of-band warning
Outcome(e, ret, requests, warned) ==
    [ e |-> e, ret |-> ret, requests |-> requests, warned |-> warned ]

(* SX1262::begin(frequency, bw, sf, cr): LoRa modem *)
radioBegin(rx, frequency, state) ==
    IF state = RADIOLIB_ERR_NONE
    THEN [ configured |-> TRUE, modulation |-> MOD_LORA, frequency |-> frequency ]
    ELSE rx

(* SX1262::beginFSK(frequency, br, freqDev, rxBw, ...): FSK modem; with    *)
(* zero deviation it is the on-off keying configuration                    *)
radioBeginFSK(rx, frequency, freqDev, state) ==
    IF state = RADIOLIB_ERR_NONE
    THEN [ configured |-> TRUE,
           modulation |-> IF freqDev = OOK_FREQUENCY_DEV THEN MOD_OOK ELSE MOD_FSK,
           frequency  |-> frequency ]
    ELSE rx

isValid900MHzFrequency(frequency) ==
    frequency >= FREQ_900_MIN /\ frequency <= FREQ_900_MAX

\* mutant: the module state is updated whatever the driver answered
modulationAfterConfigureAlways(cur, state, mod) == mod

\* mutant: a failed request marks the modulation as unknown
modulationAfterConfigureUnknown(cur, state, mod) ==
    IF state = RADIOLIB_ERR_NONE THEN mod ELSE MOD_UNKNOWN

(* if (state == RADIOLIB_ERR_NONE) { currentModulation = MOD_x; ... } *)
modulationAfterConfigure(cur, state, mod) ==
    IF state = RADIOLIB_ERR_NONE THEN mod ELSE cur

\* mutant: a frequency outside the band is refused before the driver is asked
configureLoRaModeStrict(e, radio, frequency, drv) ==
    IF radio = NULL \/ ~isValid900MHzFrequency(frequency)
    THEN Outcome(e, RADIOLIB_ERR_INVALID_CALL, 0, radio # NULL)
    ELSE LET state == drv
         IN Outcome([ e EXCEPT
                        !.receiver = radioBegin(@, frequency, state),
                        !.currentModulation =
                            modulationAfterConfigure(@, state, MOD_LORA) ],
                    state, 1, FALSE)

configureLoRaMode(e, radio, frequency, drv) ==
    IF radio = NULL
    THEN Outcome(e, RADIOLIB_ERR_INVALID_CALL, 0, FALSE)
    ELSE LET state == drv
         IN Outcome([ e EXCEPT
                        !.receiver = radioBegin(@, frequency, state),
                        !.currentModulation =
                            modulationAfterConfigure(@, state, MOD_LORA) ],
                    state, 1, ~isValid900MHzFrequency(frequency))

configureFSKMode(e, radio, frequency, drv) ==
    IF radio = NULL
    THEN Outcome(e, RADIOLIB_ERR_INVALID_CALL, 0, FALSE)
    ELSE LET state == drv
         IN Outcome([ e EXCEPT
                        !.receiver = radioBeginFSK(@, frequency, FSK_FREQUENCY_DEV, state),
                        !.currentModulation =
                            modulationAfterConfigure(@, state, MOD_FSK) ],
                    state, 1, ~isValid900MHzFrequency(frequency))

configureOOKMode(e, radio, frequency, drv) ==
    IF radio = NULL
    THEN Outcome(e, RADIOLIB_ERR_INVALID_CALL, 0, FALSE)
    ELSE LET state == drv
         IN Outcome([ e EXCEPT
                        !.receiver = radioBeginFSK(@, frequency, OOK_FREQUENCY_DEV, state),
                        !.currentModulation =
                            modulationAfterConfigure(@, state, MOD_OOK) ],
                    state, 1, ~isValid900MHzFrequency(frequency))

\* mutant: init claims LoRa even when the driver refused
droneDetectionInitEager(e, radio, drv) ==
    IF radio = NULL
    THEN Outcome(e, FALSE, 0, FALSE)
    ELSE LET c == configureLoRaMode(e, radio, FREQ_900_CENTER, drv)
         IN Outcome([ c.e EXCEPT !.currentModulation = MOD_LORA,
                                 !.isInitialized = (c.ret = RADIOLIB_ERR_NONE) \/ @ ],
                    c.ret = RADIOLIB_ERR_NONE, c.requests, c.warned)

droneDetectionInit(e, radio, drv) ==
    IF radio = NULL
    THEN Outcome(e, FALSE, 0, FALSE)
    ELSE LET c == configureLoRaMode(e, radio, FREQ_900_CENTER, drv)
         IN IF c.ret = RADIOLIB_ERR_NONE
            THEN Outcome([ c.e EXCEPT !.isInitialized = TRUE,
                                      !.currentModulation = MOD_LORA ],
                         TRUE, c.requests, c.warned)
            ELSE Outcome(c.e, FALSE, c.requests, c.warned)

getCurrentModulation(e) == e.currentModulation

\* mutant: the cycle leaves out OOK
nextModulationNoOOK(cur) ==
    IF cur = MOD_LORA THEN MOD_FSK ELSE MOD_LORA

\* mutant: the cycle runs backwards
nextModulationReversed(cur) ==
    CASE cur = MOD_LORA -> MOD_OOK
      [] cur = MOD_FSK  -> MOD_LORA
      [] OTHER          -> MOD_FSK

(* switch (currentModulation): the nextMod each case proposes *)
nextModulation(cur) ==
    CASE cur = MOD_LORA -> MOD_FSK
      [] cur = MOD_FSK  -> MOD_OOK
      [] OTHER          -> MOD_LORA

\* mutant: the module state is set to the proposal before the status is
\* looked at
switchToNextModulationEarlyUpdate(e, radio, frequency, drv) ==
    IF radio = NULL
    THEN Outcome(e, e.currentModulation, 0, FALSE)
    ELSE LET nextMod == nextModulation(e.currentModulation)
             c == CASE e.currentModulation = MOD_LORA ->
                          configureFSKMode(e, radio, frequency, drv)
                    [] e.currentModulation = MOD_FSK ->
                          configureOOKMode(e, radio, frequency, drv)
                    [] OTHER ->
                          configureLoRaMode(e, radio, frequency, drv)
             e2 == [ c.e EXCEPT !.currentModulation = nextMod ]
         IN IF c.ret # RADIOLIB_ERR_NONE
            THEN Outcome(e2, e.currentModulation, c.requests, c.warned)
            ELSE Outcome(e2, nextMod, c.requests, c.warned)

\* mutant: the failure branch reports the modulation that was proposed
switchToNextModulationOptimistic(e, radio, frequency, drv) ==
    IF radio = NULL
    THEN Outcome(e, e.currentModulation, 0, FALSE)
    ELSE LET nextMod == nextModulation(e.currentModulation)
             c == CASE e.currentModulation = MOD_LORA ->
                          configureFSKMode(e, radio, frequency, drv)
                    [] e.currentModulation = MOD_FSK ->
                          configureOOKMode(e, radio, frequency, drv)
                    [] OTHER ->
                          configureLoRaMode(e, radio, frequency, drv)
         IN IF c.ret # RADIOLIB_ERR_NONE
            THEN Outcome(c.e, nextMod, c.requests, c.warned)
            ELSE Outcome([ c.e EXCEPT !.currentModulation = nextMod ],
                         nextMod, c.requests, c.warned)

\* mutant: a failed switch falls back to the first modulation
switchToNextModulationFallback(e, radio, frequency, drv) ==
    IF radio = NULL
    THEN Outcome(e, e.currentModulation, 0, FALSE)
    ELSE LET nextMod == nextModulation(e.currentModulation)
             c == CASE e.currentModulation = MOD_LORA ->
                          configureFSKMode(e, radio, frequency, drv)
                    [] e.currentModulation = MOD_FSK ->
                          configureOOKMode(e, radio, frequency, drv)
                    [] OTHER ->
                          configureLoRaMode(e, radio, frequency, drv)
         IN IF c.ret # RADIOLIB_ERR_NONE
            THEN Outcome([ c.e EXCEPT !.currentModulation = MOD_LORA ],
                         MOD_LORA, c.requests, c.warned)
            ELSE Outcome([ c.e EXCEPT !.currentModulation = nextMod ],
                         nextMod, c.requests, c.warned)

\* mutant: a switch also starts the sweep afresh
switchToNextModulationResetsSweep(e, radio, frequency, drv) ==
    IF radio = NULL
    THEN Outcome(e, e.currentModulation, 0, FALSE)
    ELSE LET nextMod == nextModulation(e.currentModulation)
             c == CASE e.currentModulation = MOD_LORA ->
                          configureFSKMode(e, radio, frequency, drv)
                    [] e.currentModulation = MOD_FSK ->
                          configureOOKMode(e, radio, frequency, drv)
                    [] OTHER ->
                          configureLoRaMode(e, radio, frequency, drv)
         IN IF c.ret # RADIOLIB_ERR_NONE
            THEN Outcome(c.e, c.e.currentModulation, c.requests, c.warned)
            ELSE Outcome([ c.e EXCEPT !.currentModulation = nextMod,
                                      !.currentSweepFrequency = FREQ_900_MIN,
                                      !.sweepComplete = FALSE ],
                         nextMod, c.requests, c.warned)

switchToNextModulation(e, radio, frequency, drv) ==
    IF radio = NULL
    THEN Outcome(e, e.currentModulation, 0, FALSE)
    ELSE LET nextMod == nextModulation(e.currentModulation)
             c == CASE e.currentModulation = MOD_LORA ->
                          configureFSKMode(e, radio, frequency, drv)
                    [] e.currentModulation = MOD_FSK ->
                          configureOOKMode(e, radio, frequency, drv)
                    [] OTHER ->
                          configureLoRaMode(e, radio, frequency, drv)
         IN IF c.ret # RADIOLIB_ERR_NONE
            THEN Outcome(c.e, c.e.currentModulation, c.requests, c.warned)
            ELSE Outcome([ c.e EXCEPT !.currentModulation = nextMod ],
                         nextMod, c.requests, c.warned)

getCurrentSweepFrequency(e) == e.currentSweepFrequency

\* mutant: after a failed retune the step is tried again at the same
\* frequency instead of moving on
sweepToNextFrequencyRetry(e, radio, drv) ==
    IF radio = NULL
    THEN Outcome(e, e.currentSweepFrequency, 0, FALSE)
    ELSE LET stale   == e.receiver.configured
                        /\ e.receiver.frequency # e.currentSweepFrequency
                        /\ e.currentSweepFrequency # FREQ_900_MIN
             stepped == IF stale THEN e.currentSweepFrequency
                        ELSE e.currentSweepFrequency + SWEEP_STEP_KHZ
             wrapped == stepped > FREQ_900_MAX
             e1 == [ e EXCEPT
                       !.currentSweepFrequency =
                           IF wrapped THEN FREQ_900_MIN ELSE stepped,
                       !.sweepComplete = IF wrapped THEN TRUE ELSE @ ]
             f == e1.currentSweepFrequency
             c == CASE e1.currentModulation = MOD_LORA -> configureLoRaMode(e1, radio, f, drv)
                    [] e1.currentModulation = MOD_FSK  -> configureFSKMode(e1, radio, f, drv)
                    [] e1.currentModulation = MOD_OOK  -> configureOOKMode(e1, radio, f, drv)
                    [] OTHER                           -> configureLoRaMode(e1, radio, f, drv)
         IN Outcome(c.e, c.e.currentSweepFrequency, c.requests, c.warned)

\* mutant: the band maximum itself already wraps (>= for >)
sweepToNextFrequencyWrapAtMax(e, radio, drv) ==
    IF radio = NULL
    THEN Outcome(e, e.currentSweepFrequency, 0, FALSE)
    ELSE LET stepped == e.currentSweepFrequency + SWEEP_STEP_KHZ
             wrapped == stepped >= FREQ_900_MAX
             e1 == [ e EXCEPT
                       !.currentSweepFrequency =
                           IF wrapped THEN FREQ_900_MIN ELSE stepped,
                       !.sweepComplete = IF wrapped THEN TRUE ELSE @ ]
             f == e1.currentSweepFrequency
             c == CASE e1.currentModulation = MOD_LORA -> configureLoRaMode(e1, radio, f, drv)
                    [] e1.currentModulation = MOD_FSK  -> configureFSKMode(e1, radio, f, drv)
                    [] e1.currentModulation = MOD_OOK  -> configureOOKMode(e1, radio, f, drv)
                    [] OTHER                           -> configureLoRaMode(e1, radio, f, drv)
         IN Outcome(c.e, c.e.currentSweepFrequency, c.requests, c.warned)

\* mutant: the end of the band is tested before the step is added
sweepToNextFrequencyCheckFirst(e, radio, drv) ==
    IF radio = NULL
    THEN Outcome(e, e.currentSweepFrequency, 0, FALSE)
    ELSE LET wrapped == e.currentSweepFrequency > FREQ_900_MAX
             stepped == e.currentSweepFrequency + SWEEP_STEP_KHZ
             e1 == [ e EXCEPT
                       !.currentSweepFrequency =
                           IF wrapped THEN FREQ_900_MIN ELSE stepped,
                       !.sweepComplete = IF wrapped THEN TRUE ELSE @ ]
             f == e1.currentSweepFrequency
             c == CASE e1.currentModulation = MOD_LORA -> configureLoRaMode(e1, radio, f, drv)
                    [] e1.currentModulation = MOD_FSK  -> configureFSKMode(e1, radio, f, drv)
                    [] e1.currentModulation = MOD_OOK  -> configureOOKMode(e1, radio, f, drv)
                    [] OTHER                           -> configureLoRaMode(e1, radio, f, drv)
         IN Outcome(c.e, c.e.currentSweepFrequency, c.requests, c.warned)

\* mutant: the flag follows the latest step instead of being set once
sweepToNextFrequencyFlagFollows(e, radio, drv) ==
    IF radio = NULL
    THEN Outcome(e, e.currentSweepFrequency, 0, FALSE)
    ELSE LET stepped == e.currentSweepFrequency + SWEEP_STEP_KHZ
             wrapped == stepped > FREQ_900_MAX
             e1 == [ e EXCEPT
                       !.currentSweepFrequency =
                           IF wrapped THEN FREQ_900_MIN ELSE stepped,
                       !.sweepComplete = wrapped ]
             f == e1.currentSweepFrequency
             c == CASE e1.currentModulation = MOD_LORA -> configureLoRaMode(e1, radio, f, drv)
                    [] e1.currentModulation = MOD_FSK  -> configureFSKMode(e1, radio, f, drv)
                    [] e1.currentModulation = MOD_OOK  -> configureOOKMode(e1, radio, f, drv)
                    [] OTHER                           -> configureLoRaMode(e1, radio, f, drv)
         IN Outcome(c.e, c.e.currentSweepFrequency, c.requests, c.warned)

\* mutant: every sweep step retunes as LoRa
sweepToNextFrequencyLoRaOnly(e, radio, drv) ==
    IF radio = NULL
    THEN Outcome(e, e.currentSweepFrequency, 0, FALSE)
    ELSE LET stepped == e.currentSweepFrequency + SWEEP_STEP_KHZ
             wrapped == stepped > FREQ_900_MAX
             e1 == [ e EXCEPT
                       !.currentSweepFrequency =
                           IF wrapped THEN FREQ_900_MIN ELSE stepped,
                       !.sweepComplete = IF wrapped THEN TRUE ELSE @ ]
             c == configureLoRaMode(e1, radio, e1.currentSweepFrequency, drv)
         IN Outcome(c.e, c.e.currentSweepFrequency, c.requests, c.warned)

\* mutant: the handle is only looked at by the configuration routine
sweepToNextFrequencyNoNullCheck(e, radio, drv) ==
    LET stepped == e.currentSweepFrequency + SWEEP_STEP_KHZ
        wrapped == stepped > FREQ_900_MAX
        e1 == [ e EXCEPT
                  !.currentSweepFrequency =
                      IF wrapped THEN FREQ_900_MIN ELSE stepped,
                  !.sweepComplete = IF wrapped THEN TRUE ELSE @ ]
        f == e1.currentSweepFrequency
        c == CASE e1.currentModulation = MOD_LORA -> configureLoRaMode(e1, radio, f, drv)
               [] e1.currentModulation = MOD_FSK  -> configureFSKMode(e1, radio, f, drv)
               [] e1.currentModulation = MOD_OOK  -> configureOOKMode(e1, radio, f, drv)
               [] OTHER                           -> configureLoRaMode(e1, radio, f, drv)
    IN Outcome(c.e, c.e.currentSweepFrequency, c.requests, c.warned)

sweepToNextFrequency(e, radio, drv) ==
    IF radio = NULL
    THEN Outcome(e, e.currentSweepFrequency, 0, FALSE)
    ELSE LET stepped == e.currentSweepFrequency + SWEEP_STEP_KHZ
             wrapped == stepped > FREQ_900_MAX
             e1 == [ e EXCEPT
                       !.currentSweepFrequency =
                           IF wrapped THEN FREQ_900_MIN ELSE stepped,
                       !.sweepComplete = IF wrapped THEN TRUE ELSE @ ]
             f == e1.currentSweepFrequency
             c == CASE e1.currentModulation = MOD_LORA -> configureLoRaMode(e1, radio, f, drv)
                    [] e1.currentModulation = MOD_FSK  -> configureFSKMode(e1, radio, f, drv)
                    [] e1.currentModulation = MOD_OOK  -> configureOOKMode(e1, radio, f, drv)
                    [] OTHER                           -> configureLoRaMode(e1, radio, f, drv)
         IN Outcome(c.e, c.e.currentSweepFrequency, c.requests, c.warned)

\* mutant: nothing is done when the cursor is already at the start
resetSweepScanLazy(e) ==
    IF e.currentSweepFrequency = FREQ_900_MIN
    THEN Outcome(e, TRUE, 0, FALSE)
    ELSE Outcome([ e EXCEPT !.currentSweepFrequency = FREQ_900_MIN,
                            !.sweepComplete = FALSE ],
                 TRUE, 0, FALSE)

resetSweepScan(e) ==
    Outcome([ e EXCEPT !.currentSweepFrequency = FREQ_900_MIN,
                       !.sweepComplete = FALSE ],
            TRUE, 0, FALSE)

isSweepComplete(e) == e.sweepComplete

-----------------------------------------------------------------------------
(* Signature database: knownSignatures[], in declaration order.  The array *)
(* is indexed from 0 in the code and from 1 here; matchSignature returns   *)
(* the code's index.  Frequencies in kHz, bandwidth in kHz, minRSSI in dBm *)

Signature(name, fmin, fmax, modulation, bandwidth, minRSSI) ==
    [ name |-> name, frequencyMin |-> fmin, frequencyMax |-> fmax,
      modulation |-> modulation, bandwidth |-> bandwidth, minRSSI |-> minRSSI ]

knownSignatures ==
    << Signature("ExpressLRS 900",  902000, 928000, MOD_LORA,   500, -120),
       Signature("ELRS 900 Narrow", 902000, 928000, MOD_LORA,   100, -115),
       Signature("TBS Crossfire",   902000, 928000, MOD_FSK,  10000, -130),
       Signature("RFD900/SiK",      902000, 928000, MOD_FSK,  26000, -121),
       Signature("FrSky R9",        902000, 928000, MOD_LORA,   200, -120),
       Signature("FSK Telemetry",   902000, 928000, MOD_FSK,    156, -110),
       Signature("OOK Remote",      902000, 928000, MOD_OOK,     58, -100) >>

NUM_SIGNATURES == Len(knownSignatures)

\* the loop of matchSignature from index i on
RECURSIVE matchSignatureFrom(_, _, _, _)
matchSignatureFrom(i, rssi, frequency, modulation) ==
    IF ~(i < NUM_SIGNATURES)
    THEN -1
    ELSE LET sig == knownSignatures[i + 1]
         IN  IF sig.modulation # modulation
             THEN matchSignatureFrom(i + 1, rssi, frequency, modulation)
             ELSE IF frequency < sig.frequencyMin \/ frequency > sig.frequencyMax
             THEN matchSignatureFrom(i + 1, rssi, frequency, modulation)
             ELSE IF rssi < sig.minRSSI
             THEN matchSignatureFrom(i + 1, rssi, frequency, modulation)
             ELSE i

\* mutant: the scan keeps going after a hit, so the last match wins
RECURSIVE matchSignatureLastFrom(_, _, _, _, _)
matchSignatureLastFrom(i, found, rssi, frequency, modulation) ==
    IF ~(i < NUM_SIGNATURES)
    THEN found
    ELSE LET sig == knownSignatures[i + 1]
             hit == /\ sig.modulation = modulation
                    /\ ~(frequency < sig.frequencyMin \/ frequency > sig.frequencyMax)
                    /\ ~(rssi < sig.minRSSI)
         IN  matchSignatureLastFrom(i + 1, IF hit THEN i ELSE found,
                                    rssi, frequency, modulation)

matchSignatureLast(rssi, frequency, modulation) ==
    matchSignatureLastFrom(0, -1, rssi, frequency, modulation)

\* mutant: a burst of unknown modulation is compared as if it were LoRa
matchSignatureUnknownAsLoRa(rssi, frequency, modulation) ==
    matchSignatureFrom(0, rssi, frequency,
                       IF modulation = MOD_UNKNOWN THEN MOD_LORA ELSE modulation)

matchSignature(rssi, frequency, modulation) ==
    matchSignatureFrom(0, rssi, frequency, modulation)

-----------------------------------------------------------------------------
(* Confidence score.  rssi (dBm), snr (dB) and freqError (Hz) are whole    *)
(* numbers here.  The code computes each score in float, (x + 120.0f) /    *)
(* 90.0f * 50.0f and so on, and casts it to uint8_t, which drops the       *)
(* fraction; the model computes the same quotient exactly, as num / den,   *)
(* and drops the fraction with \div.  On whole-number arguments the float  *)
(* evaluation and the exact one give the same integer (compared for rssi   *)
(* in -200..100, snr in -50..100 and freqError in -20000..20000).          *)

Min(a, b) == IF a < b THEN a ELSE b
Max(a, b) == IF a > b THEN a ELSE b

\* arithmetic of a uint8_t
U8(x) == x % 256

\* (uint8_t)min(num / den, cap) and (uint8_t)max(num / den, 0) for den > 0
CastMin(num, den, cap) == IF num < cap * den THEN U8(num \div den) ELSE U8(cap)
CastMax(num, den)      == IF num > 0 THEN U8(num \div den) ELSE 0

fabsf(x) == IF x < 0 THEN -x ELSE x

\* mutant: the RSSI score is added without the min(., 50.0f)
rssiContributionUnclamped(rssi) ==
    IF rssi > -120 THEN U8(((rssi + 120) * 50) \div 90) ELSE 0

(* if (rssi > -120.0f) confidence += (uint8_t)min(rssiScore, 50.0f) *)
rssiContribution(rssi) ==
    IF rssi > -120 THEN CastMin((rssi + 120) * 50, 90, 50) ELSE 0

(* if (snr > 0) confidence += (uint8_t)min(snrScore, 30.0f) *)
snrContribution(snr) ==
    IF snr > 0 THEN CastMin(snr * 30, 20, 30) ELSE 0

\* mutant: the error is used with its sign
freqContributionSigned(freqError) ==
    LET absFreqError == freqError
    IN  IF absFreqError < 10000
        THEN CastMax((10000 - absFreqError) * 20, 10000)
        ELSE 0

(* if (absFreqError < 10000.0f) confidence += (uint8_t)max(freqScore, 0.0f) *)
freqContribution(freqError) ==
    LET absFreqError == fabsf(freqError)
    IN  IF absFreqError < 10000
        THEN CastMax((10000 - absFreqError) * 20, 10000)
        ELSE 0

\* mutant: the SNR score reaches 30 at 30 dB instead of 20 dB
calculateConfidenceSnrScale(rssi, snr, freqError) ==
    LET c0 == 0
        c1 == U8(c0 + rssiContribution(rssi))
        c2 == U8(c1 + (IF snr > 0 THEN CastMin(snr * 30, 30, 30) ELSE 0))
        c3 == U8(c2 + freqContribution(freqError))
    IN  Min(c3, 100)

calculateConfidence(rssi, snr, freqError) ==
    LET c0 == 0
        c1 == U8(c0 + rssiContribution(rssi))
        c2 == U8(c1 + snrContribution(snr))
        c3 == U8(c2 + freqContribution(freqError))
    IN  Min(c3, 100)

-----------------------------------------------------------------------------
(* Classification.  signal is the output pointer: NULL, or the caller's    *)
(* DroneSignal, whose fields after the call are in the result's signal.    *)

SIGNAL == "signal"
SignalPointers == { NULL, SIGNAL }

\* a DroneSignal the call did not write
Unwritten == [ written |-> FALSE ]

DroneSignal(frequency, rssi, snr, freqError, modulation, isDrone, confidence, droneType) ==
    [ written |-> TRUE, frequency |-> frequency, rssi |-> rssi, snr |-> snr,
      freqError |-> freqError, modulation |-> modulation,
      isDroneSignature |-> isDrone, confidence |-> confidence, droneType |-> droneType ]

\* the outcome of a classification: the engine after it, the value
\* returned and the DroneSignal
Classified(e, ret, signal) ==
    [ e |-> e, ret |-> ret, requests |-> 0, warned |-> FALSE, signal |-> signal ]

\* mutant: the bonus is added without clamping the sum again
boostedConfidenceUnclamped(confidence) == U8(confidence + 20)

(* signal->confidence = min((int)signal->confidence + 20, 100) *)
boostedConfidence(confidence) == Min(confidence + 20, 100)

\* mutant: the bonus is given whether or not a signature matched
analyzeDroneSignalAlwaysBoost(e, rssi, snr, freqError, currentMod, signal) ==
    IF signal = NULL
    THEN Classified(e, FALSE, Unwritten)
    ELSE LET frequency  == FREQ_900_CENTER
             confidence == calculateConfidence(rssi, snr, freqError)
             matchIndex == matchSignature(rssi, frequency, currentMod)
         IN  IF matchIndex >= 0
             THEN Classified(e, TRUE,
                      DroneSignal(frequency, rssi, snr, freqError, currentMod, TRUE,
                                  boostedConfidence(confidence),
                                  knownSignatures[matchIndex + 1].name))
             ELSE Classified(e, FALSE,
                      DroneSignal(frequency, rssi, snr, freqError, currentMod, FALSE,
                                  boostedConfidence(confidence), "Unknown"))

\* mutant: the record is stamped with the sweep cursor, and the receiver's
\* modulation is taken from the module state
analyzeDroneSignalFromState(e, rssi, snr, freqError, currentMod, signal) ==
    IF signal = NULL
    THEN Classified(e, FALSE, Unwritten)
    ELSE LET frequency  == e.currentSweepFrequency
             confidence == calculateConfidence(rssi, snr, freqError)
             matchIndex == matchSignature(rssi, frequency, e.currentModulation)
         IN  IF matchIndex >= 0
             THEN Classified(e, TRUE,
                      DroneSignal(frequency, rssi, snr, freqError, currentMod, TRUE,
                                  boostedConfidence(confidence),
                                  knownSignatures[matchIndex + 1].name))
             ELSE Classified(e, FALSE,
                      DroneSignal(frequency, rssi, snr, freqError, currentMod, FALSE,
                                  confidence, "Unknown"))

\* mutant: the record carries the frequency the receiver is tuned to
analyzeDroneSignalAtReceiver(e, rssi, snr, freqError, currentMod, signal) ==
    IF signal = NULL
    THEN Classified(e, FALSE, Unwritten)
    ELSE LET frequency == IF e.receiver.configured THEN e.receiver.frequency
                          ELSE FREQ_900_CENTER
             confidence == calculateConfidence(rssi, snr, freqError)
             matchIndex == matchSignature(rssi, FREQ_900_CENTER, currentMod)
         IN IF matchIndex >= 0
            THEN Classified(e, TRUE,
                     DroneSignal(frequency, rssi, snr, freqError, currentMod, TRUE,
                                 boostedConfidence(confidence),
                                 knownSignatures[matchIndex + 1].name))
            ELSE Classified(e, FALSE,
                     DroneSignal(frequency, rssi, snr, freqError, currentMod, FALSE,
                                 confidence, "Unknown"))

analyzeDroneSignal(e, rssi, snr, freqError, currentMod, signal) ==
    IF signal = NULL
    THEN Classified(e, FALSE, Unwritten)
    ELSE LET frequency  == FREQ_900_CENTER
             confidence == calculateConfidence(rssi, snr, freqError)
             matchIndex == matchSignature(rssi, frequency, currentMod)
         IN  IF matchIndex >= 0
             THEN Classified(e, TRUE,
                      DroneSignal(frequency, rssi, snr, freqError, currentMod, TRUE,
                                  boostedConfidence(confidence),
                                  knownSignatures[matchIndex + 1].name))
             ELSE Classified(e, FALSE,
                      DroneSignal(frequency, rssi, snr, freqError, currentMod, FALSE,
                                  confidence, "Unknown"))

-----------------------------------------------------------------------------
(* State after construction: the static initialisers of the module state,  *)
(* and a receiver no begin has reached yet.                                *)

NoCall ==
    [ op |-> "none", radio |-> NULL, frequency |-> 0, state |-> RADIOLIB_ERR_NONE,
      requests |-> 0, ret |-> FALSE, warned |-> FALSE, afterFailedSweep |-> FALSE ]

NoProbe == [ fn |-> "none" ]

\* history kept beside main.cpp's variables: how many interrupts fired and
\* how many passes handled a burst, the modulation at the latest interrupt,
\* and for the pass of loop() under way the modulation it started with, the
\* duties it has carried out, and for a burst it classified the modulation
\* at the interrupt and the one handed to analyzeDroneSignal; and how the
\* latest switch attempt ended and how long ago it was, and how the one
\* before it ended; and for a burst handled in the pass under way what
\* readData answered, whether startReceive() was called after it and whether
\* the burst was classified
NoTick ==
    [ interrupts |-> 0, handled |-> 0, capturedMod |-> MOD_LORA,
      startMod |-> MOD_LORA, done |-> << >>,
      atCapture |-> MOD_LORA, passed |-> MOD_LORA,
      attempt |-> "none", sinceAttempt |-> 0, prevAttempt |-> "none",
      read |-> RADIOLIB_ERR_NONE, restarted |-> FALSE, classified |-> FALSE ]

Init ==
    /\ currentModulation = MOD_LORA
    /\ isInitialized = FALSE
    /\ currentSweepFrequency = FREQ_900_MIN
    /\ sweepComplete = FALSE
    /\ receiver = Unconfigured
    /\ last = NoCall
    /\ run = [ start |-> MOD_LORA, n |-> 0 ]
    /\ sweepSteps = 0
    /\ probe = NoProbe
    /\ receivedFlag = FALSE
    /\ sinceModulationSwitch = 0
    /\ sinceDisplayUpdate = 0
    /\ pc = "setup"
    /\ tick = NoTick

\* history of successful switches in a row: a successful switch lengthens
\* the row (a row of MaxRun starts again from the modulation before the
\* call); any other call, and a switch that did not succeed, ends it
RunAfter(op, before, o, drv) ==
    IF op = "switchToNextModulation" /\ o.requests = 1 /\ drv = RADIOLIB_ERR_NONE
    THEN IF run.n < MaxRun
         THEN [ run EXCEPT !.n = @ + 1 ]
         ELSE [ start |-> before, n |-> 1 ]
    ELSE [ start |-> o.e.currentModulation, n |-> 0 ]

\* number of sweep steps that takes the cursor from the band minimum back
\* to it
SweepPeriod == (FREQ_900_MAX - FREQ_900_MIN) \div SWEEP_STEP_KHZ + 1

\* history of sweep steps made with a handle since construction or the
\* latest resetSweepScan; counted up to two periods, a longer count is
\* kept as its equal modulo the period in the second one
SweepStepsAfter(op, o) ==
    CASE op = "sweepToNextFrequency" /\ o.requests = 1 ->
             IF sweepSteps + 1 = 2 * SweepPeriod THEN SweepPeriod ELSE sweepSteps + 1
      [] op = "resetSweepScan" -> 0
      [] OTHER -> sweepSteps

\* one call: the module state and receiver become those of its outcome,
\* the call is recorded, and p is what a pure routine was given and gave
Record(op, radio, frequency, drv, o, p) ==
    /\ currentModulation' = o.e.currentModulation
    /\ isInitialized' = o.e.isInitialized
    /\ currentSweepFrequency' = o.e.currentSweepFrequency
    /\ sweepComplete' = o.e.sweepComplete
    /\ receiver' = o.e.receiver
    /\ last' = [ op |-> op, radio |-> radio, frequency |-> frequency,
                 state |-> IF o.requests = 0 THEN RADIOLIB_ERR_NONE ELSE drv,
                 requests |-> o.requests, ret |-> o.ret, warned |-> o.warned,
                 \* history: is this a sweep step made right after a sweep
                 \* step whose retune failed
                 afterFailedSweep |->
                     /\ op = "sweepToNextFrequency" /\ o.requests = 1
                     /\ last.op = "sweepToNextFrequency" /\ last.requests = 1
                     /\ last.state # RADIOLIB_ERR_NONE ]
    /\ run' = RunAfter(op, currentModulation, o, drv)
    /\ sweepSteps' = SweepStepsAfter(op, o)
    /\ probe' = p

\* a call of an engine routine made on its own, outside setup() and loop()
Call(op, radio, frequency, drv, o) ==
    /\ Record(op, radio, frequency, drv, o, NoProbe)
    /\ UNCHANGED shellVars

\* the driver's answer; a call that issues no request draws none
Answers(radio) == IF radio = NULL THEN { RADIOLIB_ERR_NONE } ELSE DriverCodes

DroneDetectionInit ==
    \E radio \in Handles : \E drv \in Answers(radio) :
        Call("droneDetectionInit", radio, FREQ_900_CENTER, drv,
             droneDetectionInit(Engine, radio, drv))

ConfigureLoRaMode ==
    \E radio \in Handles, frequency \in ScanFrequencies : \E drv \in Answers(radio) :
        Call("configureLoRaMode", radio, frequency, drv,
             configureLoRaMode(Engine, radio, frequency, drv))

ConfigureFSKMode ==
    \E radio \in Handles, frequency \in ScanFrequencies : \E drv \in Answers(radio) :
        Call("configureFSKMode", radio, frequency, drv,
             configureFSKMode(Engine, radio, frequency, drv))

ConfigureOOKMode ==
    \E radio \in Handles, frequency \in ScanFrequencies : \E drv \in Answers(radio) :
        Call("configureOOKMode", radio, frequency, drv,
             configureOOKMode(Engine, radio, frequency, drv))

SwitchToNextModulation ==
    \E radio \in Handles, frequency \in ScanFrequencies : \E drv \in Answers(radio) :
        Call("switchToNextModulation", radio, frequency, drv,
             switchToNextModulation(Engine, radio, frequency, drv))

SweepToNextFrequency ==
    \E radio \in Handles : \E drv \in Answers(radio) :
        Call("sweepToNextFrequency", radio, 0, drv,
             sweepToNextFrequency(Engine, radio, drv))

ResetSweepScan ==
    Call("resetSweepScan", NULL, 0, RADIOLIB_ERR_NONE, resetSweepScan(Engine))

\* analyzeDroneSignal on a measurement <<rssi, snr, freqError>> of M and a
\* modulation of Mods
AnalyzeOver(M, Mods) ==
    \E m \in M, currentMod \in Mods, signal \in SignalPointers :
        LET o == analyzeDroneSignal(Engine, m[1], m[2], m[3], currentMod, signal)
        IN  /\ Record("analyzeDroneSignal", NULL, 0, RADIOLIB_ERR_NONE, o,
                      [ fn |-> "analyzeDroneSignal", rssi |-> m[1], snr |-> m[2],
                        freqError |-> m[3], currentMod |-> currentMod,
                        signal |-> signal, ret |-> o.ret, out |-> o.signal ])
            /\ UNCHANGED shellVars

\* the measurements classified between the engine's other calls: a weak
\* LoRa-band burst that matches, and one below every floor
BurstMeasurements == { << -110, 5, 500 >>, << -140, -5, 50000 >> }

\* with the modulation loop() passes, getCurrentModulation(), or with one
\* that is not the engine's
AnalyzeDroneSignal ==
    AnalyzeOver(BurstMeasurements, { getCurrentModulation(Engine), MOD_UNKNOWN })

Next ==
    \/ DroneDetectionInit
    \/ ConfigureLoRaMode
    \/ ConfigureFSKMode
    \/ ConfigureOOKMode
    \/ SwitchToNextModulation
    \/ SweepToNextFrequency
    \/ ResetSweepScan
    \/ AnalyzeDroneSignal

Spec == Init /\ [][Next]_vars

-----------------------------------------------------------------------------
(* The signature matcher on its own: matchSignature is static and reads    *)
(* only the table, so it is exercised on sampled arguments with the engine *)
(* left as constructed.                                                    *)

\* each RSSI floor of the table, and the values next to it
RssiSamples ==
    UNION { { knownSignatures[k].minRSSI - 1, knownSignatures[k].minRSSI,
              knownSignatures[k].minRSSI + 1 } : k \in 1..NUM_SIGNATURES }

\* the band edges, the values just outside them, and the scan frequencies
FrequencySamples ==
    { FREQ_900_MIN - 1, FREQ_900_MIN, FREQ_900_MAX, FREQ_900_MAX + 1 }
        \cup ScanFrequencies

MatchSignature ==
    \E rssi \in RssiSamples, frequency \in FrequencySamples, modulation \in ModulationType :
        /\ probe' = [ fn |-> "matchSignature", rssi |-> rssi, frequency |-> frequency,
                      modulation |-> modulation,
                      ret |-> matchSignature(rssi, frequency, modulation) ]
        /\ UNCHANGED << engineVars, shellVars >>

NextMatch == MatchSignature

SpecMatch == Init /\ [][NextMatch]_vars

-----------------------------------------------------------------------------
(* The scorer and the classifier on sampled measurements: one call from    *)
(* the state as constructed.                                               *)

\* around every RSSI floor of the table and the scorer's zero at -120 dBm,
\* around its saturation at -30 dBm, and far out on both sides
RssiInputs == (-132 .. -98) \cup { -200, -140, -31, -30, -29, 0, 50 }

\* around the scorer's zero at 0 dB and its saturation at 20 dB
SnrInputs == { -5, -1, 0, 1, 5, 19, 20, 21, 40 }

\* around the scorer's cut-off at 10 kHz, of both signs
FreqErrorInputs == { -50000, -10000, -9999, -500, 0, 500, 9999, 10000, 50000 }

Measurements == RssiInputs \X SnrInputs \X FreqErrorInputs

CalculateConfidence ==
    /\ probe = NoProbe
    /\ \E m \in Measurements :
           probe' = [ fn |-> "calculateConfidence", rssi |-> m[1], snr |-> m[2],
                      freqError |-> m[3],
                      ret |-> calculateConfidence(m[1], m[2], m[3]) ]
    /\ UNCHANGED << engineVars, shellVars >>

Classify ==
    /\ probe = NoProbe
    /\ AnalyzeOver(Measurements, ModulationType)

NextScore == CalculateConfidence \/ Classify

SpecScore == Init /\ [][NextScore]_vars

-----------------------------------------------------------------------------
(* The shell, main.cpp: setup(), then loop() over and over, with the       *)
(* receive interrupt between any two of its steps.  Time is counted as the *)
(* milliseconds since each of the two timestamps was taken, and moves on   *)
(* by LoopMs with every pass of loop().                                    *)

\* what one pass of loop() takes, delay(10) included
LoopMs == 2500

\* interrupts counted
MaxBursts == 2

MODULATION_SWITCH_INTERVAL == 10000
DISPLAY_UPDATE_INTERVAL    == 3000
SCAN_FREQUENCY == FREQ_900_CENTER

\* mutant: the timer is looked at before the pending burst
loopOrderSwitchFirst == << "modulation", "burst", "display" >>

\* the three duties of loop(), top to bottom
loopOrder == << "burst", "modulation", "display" >>

\* the position in loop() after duty d
afterDuty(d) ==
    LET k == CHOOSE i \in 1..Len(loopOrder) : loopOrder[i] = d
    IN  IF k = Len(loopOrder) THEN "delay" ELSE loopOrder[k + 1]

\* mutant: the flag is left as it was found
flagAfterHandlingKept(flag) == flag

\* receivedFlag = false
flagAfterHandling(flag) == FALSE

\* mutant: receive mode is restarted only after a packet was read
startReceiveAfterReadOnSuccess(state) == state = RADIOLIB_ERR_NONE

\* radio.startReceive() at the end of the if (receivedFlag) block: is it
\* called when readData answered state
startReceiveAfterRead(state) == TRUE

\* mutant: the timestamp is taken only when the switch went through
switchTimerAfterOnSuccess(since, state) ==
    IF state = RADIOLIB_ERR_NONE THEN 0 ELSE since

\* lastModulationSwitch = millis(), after the switch whatever its result
switchTimerAfter(since, state) == 0

\* millis() - stamp one pass later; not counted beyond the first value above
\* the interval it is compared with
Elapsed(since, interval) ==
    IF since > interval THEN since ELSE since + LoopMs

\* the history at the start of a pass of loop()
TickStart(t, mod) ==
    [ t EXCEPT !.startMod = mod, !.done = << >>,
               !.atCapture = mod, !.passed = mod,
               !.read = RADIOLIB_ERR_NONE, !.restarted = FALSE,
               !.classified = FALSE ]

\* setup(): droneDetectionInit(&radio); on failure the program stays in
\* while (true) delay(1000); otherwise the callback is attached and
\* startReceive() is called, which takes the two timestamps when it succeeds
Setup ==
    /\ pc = "setup"
    /\ \E drv \in DriverCodes, rx \in DriverCodes :
        LET o == droneDetectionInit(Engine, RADIO, drv)
        IN  /\ Record("droneDetectionInit", RADIO, FREQ_900_CENTER, drv, o, NoProbe)
            /\ pc' = IF o.ret THEN loopOrder[1] ELSE "halt"
            /\ sinceModulationSwitch' = IF o.ret /\ rx # RADIOLIB_ERR_NONE THEN LoopMs ELSE 0
            /\ sinceDisplayUpdate' = IF o.ret /\ rx # RADIOLIB_ERR_NONE THEN LoopMs ELSE 0
            /\ tick' = TickStart(tick, o.e.currentModulation)
            /\ UNCHANGED receivedFlag

\* receiveCallback(), the interrupt on DIO1
ReceiveCallback ==
    /\ pc \notin { "setup", "halt" }
    /\ tick.interrupts < MaxBursts
    /\ receivedFlag' = TRUE
    /\ tick' = [ tick EXCEPT !.interrupts = @ + 1,
                             !.capturedMod = currentModulation ]
    /\ UNCHANGED << engineVars, probe, sinceModulationSwitch, sinceDisplayUpdate, pc >>

\* if (receivedFlag)
LoopTestFlag ==
    /\ pc = "burst"
    /\ pc' = IF receivedFlag THEN "handle" ELSE afterDuty("burst")
    /\ UNCHANGED << engineVars, probe, receivedFlag, sinceModulationSwitch,
                    sinceDisplayUpdate, tick >>

\* the body of if (receivedFlag): the flag is cleared, the packet is read,
\* and when that succeeds the measurement is classified under
\* getCurrentModulation() and shown; then startReceive()
LoopHandleBurst ==
    /\ pc = "handle"
    /\ receivedFlag' = flagAfterHandling(receivedFlag)
    /\ pc' = afterDuty("burst")
    /\ UNCHANGED sinceModulationSwitch
    /\ \E state \in DriverCodes :
        LET counted == [ tick EXCEPT !.handled = Min(@ + 1, MaxBursts + 1),
                                     !.done = Append(@, "burst"),
                                     !.read = state,
                                     !.restarted = startReceiveAfterRead(state) ]
        IN  IF state = RADIOLIB_ERR_NONE
            THEN \E m \in BurstMeasurements :
                   LET currentMod == getCurrentModulation(Engine)
                       o == analyzeDroneSignal(Engine, m[1], m[2], m[3], currentMod, SIGNAL)
                   IN  /\ Record("analyzeDroneSignal", NULL, 0, RADIOLIB_ERR_NONE, o,
                                 [ fn |-> "analyzeDroneSignal", rssi |-> m[1],
                                   snr |-> m[2], freqError |-> m[3],
                                   currentMod |-> currentMod, signal |-> SIGNAL,
                                   ret |-> o.ret, out |-> o.signal ])
                       /\ sinceDisplayUpdate' = 0
                       /\ tick' = [ counted EXCEPT !.atCapture = tick.capturedMod,
                                                   !.passed = currentMod,
                                                   !.classified = TRUE ]
            ELSE /\ tick' = counted
                 /\ UNCHANGED << engineVars, probe, sinceDisplayUpdate >>

\* if (millis() - lastModulationSwitch > MODULATION_SWITCH_INTERVAL):
\* switchToNextModulation(&radio, SCAN_FREQUENCY), startReceive(), display,
\* and both timestamps taken anew
LoopSwitchModulation ==
    /\ pc = "modulation"
    /\ pc' = afterDuty("modulation")
    /\ UNCHANGED receivedFlag
    /\ IF sinceModulationSwitch > MODULATION_SWITCH_INTERVAL
       THEN \E drv \in DriverCodes :
              LET o == switchToNextModulation(Engine, RADIO, SCAN_FREQUENCY, drv)
              IN  /\ Record("switchToNextModulation", RADIO, SCAN_FREQUENCY, drv, o, NoProbe)
                  /\ sinceModulationSwitch' = switchTimerAfter(sinceModulationSwitch, drv)
                  /\ sinceDisplayUpdate' = 0
                  /\ tick' = [ tick EXCEPT
                                 !.done = Append(@, "modulation"),
                                 !.attempt = IF drv = RADIOLIB_ERR_NONE THEN "ok" ELSE "failed",
                                 !.prevAttempt = tick.attempt,
                                 !.sinceAttempt = 0 ]
       ELSE UNCHANGED << engineVars, probe, sinceModulationSwitch, sinceDisplayUpdate, tick >>

\* if (millis() - lastDisplayUpdate > DISPLAY_UPDATE_INTERVAL)
LoopRefreshDisplay ==
    /\ pc = "display"
    /\ pc' = afterDuty("display")
    /\ IF sinceDisplayUpdate > DISPLAY_UPDATE_INTERVAL
       THEN /\ sinceDisplayUpdate' = 0
            /\ tick' = [ tick EXCEPT !.done = Append(@, "display") ]
       ELSE UNCHANGED << sinceDisplayUpdate, tick >>
    /\ UNCHANGED << engineVars, probe, receivedFlag, sinceModulationSwitch >>

\* delay(10), return, and loop() is entered again
LoopDelay ==
    /\ pc = "delay"
    /\ pc' = loopOrder[1]
    /\ sinceModulationSwitch' = Elapsed(sinceModulationSwitch, MODULATION_SWITCH_INTERVAL)
    /\ sinceDisplayUpdate' = Elapsed(sinceDisplayUpdate, DISPLAY_UPDATE_INTERVAL)
    /\ tick' = [ TickStart(tick, currentModulation) EXCEPT
                   !.sinceAttempt = Elapsed(@, MODULATION_SWITCH_INTERVAL) ]
    /\ UNCHANGED << engineVars, probe, receivedFlag >>

Loop ==
    \/ LoopTestFlag
    \/ LoopHandleBurst
    \/ LoopSwitchModulation
    \/ LoopRefreshDisplay
    \/ LoopDelay

NextShell == Setup \/ ReceiveCallback \/ Loop

\* loop() is called again and again, so a step of it that can be taken is
\* taken; nothing makes the interrupt fire
SpecShell == Init /\ [][NextShell]_vars /\ WF_vars(Loop)

\* a pass of loop() whose switch is due and whose reconfiguration the driver
\* accepts
LoopSwitchSucceeds ==
    /\ LoopSwitchModulation
    /\ tick'.done # tick.done
    /\ last'.state = RADIOLIB_ERR_NONE

\* the shell with a driver that does not refuse a reconfiguration for ever
SpecShellLive ==
    Init /\ [][NextShell]_vars /\ WF_vars(Loop) /\ SF_vars(LoopSwitchSucceeds)

-----------------------------------------------------------------------------
(* Properties                                                              *)

ActiveModulations == { MOD_LORA, MOD_FSK, MOD_OOK }

\* the call recorded in last issued a driver request, which failed / succeeded
Failed(c)    == c.requests = 1 /\ c.state # RADIOLIB_ERR_NONE
Succeeded(c) == c.requests = 1 /\ c.state = RADIOLIB_ERR_NONE

\* the cycle LoRa -> FSK -> OOK -> LoRa as the specification states it
CycleOrder == << MOD_LORA, MOD_FSK, MOD_OOK >>
CyclePos(m) == CHOOSE k \in 1..Len(CycleOrder) : CycleOrder[k] = m
CycleAfter(m, n) == CycleOrder[((CyclePos(m) - 1 + n) % Len(CycleOrder)) + 1]

\* the cursor one step on, as the specification states it
SweepSuccessor(f) ==
    IF f + SWEEP_STEP_KHZ > FREQ_900_MAX THEN FREQ_900_MIN ELSE f + SWEEP_STEP_KHZ

(* C1: once the receiver has been configured, currentModulation is the     *)
(* modulation of the receiver's last successful configuration, whatever    *)
(* mix of init, switch, sweep and configure*Mode calls succeeded or failed *)
C1_ModulationReflectsReceiver ==
    receiver.configured => currentModulation = receiver.modulation

\* a failed retune after init, in a modulation other than the initial one
C1_Witness ==
    /\ isInitialized
    /\ last.op = "sweepToNextFrequency" /\ Failed(last)
    /\ receiver.modulation = MOD_OOK
    /\ currentModulation = MOD_OOK

(* C2: after n successful switchToNextModulation calls in a row from       *)
(* modulation m, the active modulation is the n-th successor of m in       *)
(* LoRa->FSK->OOK->LoRa (so every call moves one step forward, none skips  *)
(* or goes back)                                                           *)
C2_SwitchFollowsCycle ==
    /\ run.start \in ActiveModulations
    /\ currentModulation = CycleAfter(run.start, run.n)

\* a full turn of the cycle from a start other than LoRa
C2_Witness ==
    /\ run.start = MOD_FSK /\ run.n = 3
    /\ last.op = "switchToNextModulation" /\ Succeeded(last)
    /\ currentModulation = MOD_FSK

(* C3: a switchToNextModulation call whose driver request fails leaves     *)
(* currentModulation as it was before the call                             *)
C3_FailedSwitchKeepsModulation ==
    [][ (last'.op = "switchToNextModulation" /\ Failed(last'))
            => currentModulation' = currentModulation ]_vars

\* a failed switch out of OOK
C3_Witness ==
    /\ last.op = "switchToNextModulation" /\ Failed(last)
    /\ currentModulation = MOD_OOK
    /\ receiver.modulation = MOD_OOK

(* C4: with a non-null handle, switchToNextModulation returns the          *)
(* modulation that was active before the call if and only if the           *)
(* reconfiguration failed; on success it returns the next one              *)
C4_SwitchResultTellsOutcome ==
    [][ (last'.op = "switchToNextModulation" /\ last'.radio # NULL)
            => /\ (last'.ret = currentModulation) <=> Failed(last')
               /\ Succeeded(last') => /\ last'.ret = CycleAfter(currentModulation, 1)
                                      /\ last'.ret # currentModulation ]_vars

\* a failed switch out of FSK, answered with FSK
C4_Witness ==
    /\ last.op = "switchToNextModulation" /\ Failed(last)
    /\ last.ret = MOD_FSK
    /\ currentModulation = MOD_FSK

(* C5: a sweep step whose reconfiguration fails leaves the sweep cursor    *)
(* where it was before the call                                            *)
C5_FailedSweepKeepsCursor ==
    [][ (last'.op = "sweepToNextFrequency" /\ Failed(last'))
            => currentSweepFrequency' = currentSweepFrequency ]_vars

(* C6: the value sweepToNextFrequency returns when the reconfiguration     *)
(* fails differs from the value it returns when the same reconfiguration   *)
(* succeeds                                                                *)
C6_FailedSweepIsReported ==
    [][ (last'.op = "sweepToNextFrequency" /\ Failed(last'))
            => last'.ret # sweepToNextFrequency(Engine, RADIO, RADIOLIB_ERR_NONE).ret ]_vars

(* C7: every sweep step with a non-null handle moves the cursor one        *)
(* increment on (or wraps it to the band minimum), also when the step      *)
(* before it failed to retune the receiver                                 *)
C7_CursorAlwaysAdvances ==
    [][ (last'.op = "sweepToNextFrequency" /\ last'.radio # NULL)
            => currentSweepFrequency' = SweepSuccessor(currentSweepFrequency) ]_vars

\* two failed steps in a row: the cursor is two increments past the
\* frequency the receiver is still tuned to
C7_Witness ==
    /\ last.op = "sweepToNextFrequency" /\ last.afterFailedSweep /\ Failed(last)
    /\ receiver.configured
    /\ currentSweepFrequency = receiver.frequency + 2 * SWEEP_STEP_KHZ

(* C8: droneDetectionInit returns true exactly when the handle is non-null *)
(* and the driver accepts the request, then leaving the receiver in LoRa   *)
(* mode at 915 MHz with currentModulation LoRa; otherwise it returns false *)
(* and currentModulation is as before the call                             *)
C8_InitContract ==
    [][ last'.op = "droneDetectionInit"
            => /\ last'.ret = TRUE <=> Succeeded(last')
               /\ last'.ret = TRUE =>
                      /\ receiver' = [ configured |-> TRUE, modulation |-> MOD_LORA,
                                       frequency |-> FREQ_900_CENTER ]
                      /\ currentModulation' = MOD_LORA
               /\ last'.ret = FALSE =>
                      /\ currentModulation' = currentModulation
                      /\ receiver' = receiver ]_vars

\* a refused init while the engine is in OOK
C8_Witness ==
    /\ last.op = "droneDetectionInit" /\ Failed(last) /\ last.ret = FALSE
    /\ currentModulation = MOD_OOK

(* C9: getCurrentModulation never returns Unknown: currentModulation is    *)
(* LoRa, FSK or OOK in every reachable state                               *)
C9_NeverUnknown ==
    /\ getCurrentModulation(Engine) \in ActiveModulations
    /\ getCurrentModulation(Engine) # MOD_UNKNOWN

\* a refused configure request after a completed sweep
C9_Witness ==
    /\ last.op = "configureFSKMode" /\ Failed(last)
    /\ sweepComplete
    /\ currentModulation = MOD_OOK

\* the entries (code indices) a query qualifies for, read off the table
Qualifying(rssi, frequency, modulation) ==
    { i \in 0..(NUM_SIGNATURES - 1) :
        /\ knownSignatures[i + 1].modulation = modulation
        /\ knownSignatures[i + 1].frequencyMin <= frequency
        /\ frequency <= knownSignatures[i + 1].frequencyMax
        /\ knownSignatures[i + 1].minRSSI <= rssi }

(* C10: matchSignature returns the lowest-index entry with the queried     *)
(* modulation, a range containing the frequency (ends included) and a      *)
(* floor at or below the rssi; it returns -1 exactly when there is none    *)
C10_FirstMatchWins ==
    probe.fn = "matchSignature" =>
        LET q == Qualifying(probe.rssi, probe.frequency, probe.modulation)
        IN  /\ probe.ret = -1 <=> q = {}
            /\ q # {} => /\ probe.ret \in q
                         /\ \A i \in q : probe.ret <= i

\* several overlapping entries qualify at a band edge, on an RSSI floor
C10_Witness ==
    /\ probe.fn = "matchSignature"
    /\ probe.frequency = FREQ_900_MAX /\ probe.rssi = -115
    /\ Cardinality(Qualifying(probe.rssi, probe.frequency, probe.modulation)) = 3
    /\ probe.ret = 0

\* the probe is a classification that wrote its DroneSignal
Classification == probe.fn = "analyzeDroneSignal" /\ probe.signal # NULL

\* the lowest index of a nonempty set of table indices
Lowest(q) == CHOOSE i \in q : \A j \in q : i <= j

(* C11: when some signature matches at the band centre, analyzeDroneSignal *)
(* reports a match, the name of the first matching table entry and the     *)
(* clamped base score plus 20, clamped to 100; rssi -110, snr 5,           *)
(* freqError 500, LoRa is reported as "ExpressLRS 900"                     *)
C11_MatchedClassification ==
    Classification =>
        LET q == Qualifying(probe.rssi, FREQ_900_CENTER, probe.currentMod)
            baseScore == calculateConfidence(probe.rssi, probe.snr, probe.freqError)
        IN  /\ q # {} =>
                /\ probe.ret = TRUE
                /\ probe.out.isDroneSignature = TRUE
                /\ probe.out.droneType = knownSignatures[Lowest(q) + 1].name
                /\ probe.out.confidence = Min(baseScore + 20, 100)
            /\ ( probe.rssi = -110 /\ probe.snr = 5 /\ probe.freqError = 500
                 /\ probe.currentMod = MOD_LORA ) =>
                /\ probe.out.isDroneSignature = TRUE
                /\ probe.out.droneType = "ExpressLRS 900"

\* the end-to-end example: base score 5 + 7 + 19 and the bonus
C11_Witness ==
    /\ Classification
    /\ probe.rssi = -110 /\ probe.snr = 5 /\ probe.freqError = 500
    /\ probe.currentMod = MOD_LORA
    /\ probe.ret = TRUE
    /\ probe.out.droneType = "ExpressLRS 900"
    /\ probe.out.confidence = 51

(* C12: when no signature matches, analyzeDroneSignal reports no match,    *)
(* the name "Unknown" and the base score without bonus; the name is        *)
(* "Unknown" exactly when no match is reported; rssi -140, snr -5,         *)
(* freqError 50000, FSK gets confidence 0                                  *)
C12_UnmatchedClassification ==
    Classification =>
        LET q == Qualifying(probe.rssi, FREQ_900_CENTER, probe.currentMod)
            baseScore == calculateConfidence(probe.rssi, probe.snr, probe.freqError)
        IN  /\ q = {} =>
                /\ probe.ret = FALSE
                /\ probe.out.isDroneSignature = FALSE
                /\ probe.out.droneType = "Unknown"
                /\ probe.out.confidence = baseScore
            /\ (probe.out.droneType = "Unknown") <=> (probe.out.isDroneSignature = FALSE)
            /\ ( probe.rssi = -140 /\ probe.snr = -5 /\ probe.freqError = 50000
                 /\ probe.currentMod = MOD_FSK ) =>
                /\ probe.out.isDroneSignature = FALSE
                /\ probe.out.droneType = "Unknown"
                /\ probe.out.confidence = 0

\* the end-to-end example
C12_Witness ==
    /\ Classification
    /\ probe.rssi = -140 /\ probe.snr = -5 /\ probe.freqError = 50000
    /\ probe.currentMod = MOD_FSK
    /\ probe.ret = FALSE
    /\ probe.out.droneType = "Unknown"
    /\ probe.out.confidence = 0

(* C13: calculateConfidence is 0 whenever rssi < -120, snr <= 0 and the    *)
(* frequency error is 10000 Hz or more in either direction                 *)
C13_ScoreZero ==
    ( /\ probe.fn = "calculateConfidence"
      /\ probe.rssi < -120 /\ probe.snr <= 0
      /\ (probe.freqError >= 10000 \/ probe.freqError <= -10000) )
        => probe.ret = 0

\* the boundary values, with a negative error
C13_Witness ==
    /\ probe.fn = "calculateConfidence"
    /\ probe.rssi = -121 /\ probe.snr = 0 /\ probe.freqError = -10000
    /\ probe.ret = 0

(* C14: calculateConfidence is 100 whenever rssi >= -30, snr >= 20 and     *)
(* freqError = 0: the RSSI term is then 50, the SNR term 30, the           *)
(* frequency-error term 20                                                 *)
C14_ScoreFull ==
    ( /\ probe.fn = "calculateConfidence"
      /\ probe.rssi >= -30 /\ probe.snr >= 20 /\ probe.freqError = 0 )
        => /\ probe.ret = 100
           /\ rssiContribution(probe.rssi) = 50
           /\ snrContribution(probe.snr) = 30
           /\ freqContribution(probe.freqError) = 20

\* the values at which both terms just saturate
C14_Witness ==
    /\ probe.fn = "calculateConfidence"
    /\ probe.rssi = -30 /\ probe.snr = 20 /\ probe.freqError = 0
    /\ probe.ret = 100

(* C15: the three terms are at most 50, 30 and 20, so the uint8_t sum is   *)
(* their true sum (no wrap) and the base score is in 0..100; the           *)
(* confidence of a detection record is in 0..100 with or without bonus     *)
C15_ScoreInRange ==
    /\ probe.fn \in { "calculateConfidence", "analyzeDroneSignal" } =>
          LET r == rssiContribution(probe.rssi)
              n == snrContribution(probe.snr)
              f == freqContribution(probe.freqError)
              baseScore == calculateConfidence(probe.rssi, probe.snr, probe.freqError)
          IN  /\ r \in 0..50 /\ n \in 0..30 /\ f \in 0..20
              /\ baseScore = r + n + f
              /\ baseScore \in 0..100
    /\ probe.fn = "calculateConfidence" => probe.ret \in 0..100
    /\ Classification => probe.out.confidence \in 0..100

\* a matched record whose base score was already 100
C15_Witness ==
    /\ Classification
    /\ probe.out.isDroneSignature = TRUE
    /\ calculateConfidence(probe.rssi, probe.snr, probe.freqError) = 100
    /\ probe.rssi = 50
    /\ probe.out.confidence = 100

\* the engine as constructed
Constructed ==
    [ currentModulation |-> MOD_LORA, isInitialized |-> FALSE,
      currentSweepFrequency |-> FREQ_900_MIN, sweepComplete |-> FALSE,
      receiver |-> Unconfigured ]

(* C16: analyzeDroneSignal leaves currentModulation, the sweep cursor and  *)
(* the wrap flag (and the rest of the engine) as they were, for matching   *)
(* and non-matching measurements and for a null output pointer, and what   *)
(* it returns and writes is what it gives for the same arguments in the    *)
(* engine as constructed                                                   *)
C16_AnalyzeIsPure ==
    [][ last'.op = "analyzeDroneSignal"
            => /\ currentModulation' = currentModulation
               /\ currentSweepFrequency' = currentSweepFrequency
               /\ sweepComplete' = sweepComplete
               /\ isInitialized' = isInitialized
               /\ receiver' = receiver
               /\ LET o == analyzeDroneSignal(Constructed, probe'.rssi, probe'.snr,
                                              probe'.freqError, probe'.currentMod,
                                              probe'.signal)
                  IN  probe'.ret = o.ret /\ probe'.out = o.signal ]_vars

\* a match classified in FSK with the cursor past the band centre after a wrap
C16_Witness ==
    /\ last.op = "analyzeDroneSignal"
    /\ Classification /\ probe.ret = TRUE
    /\ currentModulation = MOD_FSK /\ probe.currentMod = MOD_FSK
    /\ currentSweepFrequency > FREQ_900_CENTER
    /\ sweepComplete

(* C17: a sweep step with a handle adds the step to the cursor; if the sum *)
(* is above the band maximum the cursor becomes the band minimum and the   *)
(* wrap flag is set, a sum equal to the band maximum is kept; so the       *)
(* cursor always lies in the band                                          *)
C17_StepAndWrap ==
    /\ [](FREQ_900_MIN <= currentSweepFrequency /\ currentSweepFrequency <= FREQ_900_MAX)
    /\ [][ (last'.op = "sweepToNextFrequency" /\ last'.radio # NULL)
              => IF currentSweepFrequency + SWEEP_STEP_KHZ > FREQ_900_MAX
                 THEN /\ currentSweepFrequency' = FREQ_900_MIN
                      /\ sweepComplete' = TRUE
                 ELSE /\ currentSweepFrequency' = currentSweepFrequency + SWEEP_STEP_KHZ
                      /\ sweepComplete' = sweepComplete ]_vars

\* the step that lands on the band maximum, before any wrap
C17_Witness ==
    /\ last.op = "sweepToNextFrequency" /\ last.radio # NULL
    /\ currentSweepFrequency = FREQ_900_MAX
    /\ last.ret = FREQ_900_MAX
    /\ ~sweepComplete

C19_WrapFlagSticky ==
    [][ (sweepComplete /\ ~sweepComplete') => last'.op = "resetSweepScan" ]_vars

\* the flag still set after init, a switch, further steps and a classification
C19_Witness ==
    /\ sweepComplete
    /\ last.op = "analyzeDroneSignal"
    /\ isInitialized
    /\ currentModulation = MOD_FSK
    /\ sweepSteps = SweepPeriod + 2

(* C20: resetSweepScan puts the cursor on the band minimum and clears the  *)
(* flag from any state, leaves currentModulation alone, and a second       *)
(* reset changes nothing                                                   *)
C20_ResetContract ==
    [][ last'.op = "resetSweepScan"
            => /\ currentSweepFrequency' = FREQ_900_MIN
               /\ sweepComplete' = FALSE
               /\ currentModulation' = currentModulation
               /\ resetSweepScan(resetSweepScan(Engine).e).e = resetSweepScan(Engine).e
               /\ resetSweepScan(Engine).e = Engine' ]_vars

\* a reset after the sweep had reached the band maximum in OOK
C20_Witness ==
    /\ last.op = "resetSweepScan"
    /\ currentSweepFrequency = FREQ_900_MIN /\ ~sweepComplete
    /\ currentModulation = MOD_OOK
    /\ receiver.configured /\ receiver.frequency = FREQ_900_MAX

(* C21: a sweep step whose reconfiguration succeeds leaves the receiver    *)
(* configured at the new cursor, in the modulation that was active when    *)
(* the step was called, be it LoRa, FSK or OOK                             *)
C21_SweepKeepsActiveModulation ==
    [][ (last'.op = "sweepToNextFrequency" /\ Succeeded(last'))
            => /\ currentModulation \in ActiveModulations
               /\ receiver'.configured
               /\ receiver'.modulation = currentModulation
               /\ receiver'.frequency = currentSweepFrequency' ]_vars

\* a successful step in OOK, the modulation two switches away from the first
C21_Witness ==
    /\ last.op = "sweepToNextFrequency" /\ Succeeded(last)
    /\ currentModulation = MOD_OOK
    /\ receiver = [ configured |-> TRUE, modulation |-> MOD_OOK,
                    frequency |-> currentSweepFrequency ]
    /\ currentSweepFrequency > FREQ_900_MIN

(* C22: sweepToNextFrequency and resetSweepScan leave currentModulation as *)
(* it was, whether the retune succeeds or fails; switchToNextModulation    *)
(* and droneDetectionInit leave the sweep cursor and the wrap flag as they *)
(* were                                                                    *)
C22_SingleWriter ==
    [][ /\ last'.op \in { "sweepToNextFrequency", "resetSweepScan" }
            => currentModulation' = currentModulation
        /\ last'.op \in { "switchToNextModulation", "droneDetectionInit" }
            => /\ currentSweepFrequency' = currentSweepFrequency
               /\ sweepComplete' = sweepComplete ]_vars

\* a successful switch made in the middle of a second traversal of the band
C22_Witness ==
    /\ last.op = "switchToNextModulation" /\ Succeeded(last)
    /\ currentModulation = MOD_OOK
    /\ sweepComplete
    /\ currentSweepFrequency > FREQ_900_MIN

\* the modulation each configuring call asks the driver for
Requested(op, cur) ==
    CASE op = "configureLoRaMode" -> MOD_LORA
      [] op = "configureFSKMode"  -> MOD_FSK
      [] op = "configureOOKMode"  -> MOD_OOK
      [] op = "switchToNextModulation" -> CycleAfter(cur, 1)

(* C28: configureLoRaMode, configureFSKMode, configureOOKMode and          *)
(* switchToNextModulation given a handle and a frequency outside           *)
(* 902..928 MHz still issue the driver request at that frequency, and when *)
(* the driver succeeds currentModulation becomes the requested modulation  *)
(* as it does for a frequency in the band                                  *)
C28_OutOfBandIsWarning ==
    [][ ( /\ last'.op \in { "configureLoRaMode", "configureFSKMode",
                            "configureOOKMode", "switchToNextModulation" }
          /\ last'.radio # NULL
          /\ (last'.frequency < FREQ_900_MIN \/ last'.frequency > FREQ_900_MAX) )
            => /\ last'.requests = 1
               /\ last'.state = RADIOLIB_ERR_NONE
                    => /\ receiver' = [ configured |-> TRUE,
                                        modulation |-> Requested(last'.op, currentModulation),
                                        frequency |-> last'.frequency ]
                       /\ currentModulation' = Requested(last'.op, currentModulation)
               /\ last'.state # RADIOLIB_ERR_NONE
                    => /\ receiver' = receiver
                       /\ currentModulation' = currentModulation ]_vars

\* a switch from OOK to LoRa at 868 MHz that the driver accepted
C28_Witness ==
    /\ last.op = "switchToNextModulation" /\ Succeeded(last)
    /\ last.frequency = 868000
    /\ last.warned
    /\ last.ret = MOD_LORA /\ currentModulation = MOD_LORA
    /\ receiver = [ configured |-> TRUE, modulation |-> MOD_LORA, frequency |-> 868000 ]
    /\ isInitialized

(* C29: with a null handle droneDetectionInit returns false,               *)
(* switchToNextModulation the current modulation and sweepToNextFrequency  *)
(* the current cursor, each without a driver request and with              *)
(* currentModulation, the cursor and the wrap flag as before; with a null  *)
(* output record analyzeDroneSignal returns false                          *)
C29_NullRejected ==
    [][ /\ ( /\ last'.op \in { "droneDetectionInit", "switchToNextModulation",
                               "sweepToNextFrequency" }
             /\ last'.radio = NULL )
            => /\ last'.requests = 0
               /\ currentModulation' = currentModulation
               /\ currentSweepFrequency' = currentSweepFrequency
               /\ sweepComplete' = sweepComplete
               /\ receiver' = receiver
               /\ isInitialized' = isInitialized
               /\ last'.op = "droneDetectionInit" => last'.ret = FALSE
               /\ last'.op = "switchToNextModulation" => last'.ret = currentModulation
               /\ last'.op = "sweepToNextFrequency" => last'.ret = currentSweepFrequency
        /\ (last'.op = "analyzeDroneSignal" /\ probe'.signal = NULL)
            => probe'.ret = FALSE ]_vars

\* a sweep step without a handle, made with the cursor inside the band
C29_Witness ==
    /\ last.op = "sweepToNextFrequency" /\ last.radio = NULL
    /\ last.requests = 0
    /\ currentSweepFrequency > FREQ_900_MIN
    /\ last.ret = currentSweepFrequency
    /\ currentModulation = MOD_FSK

(* C30: every record analyzeDroneSignal writes has frequency 915 MHz and   *)
(* the rssi, snr, freqError and modulation it was called with, wherever    *)
(* the sweep cursor is and whatever was switched or swept before           *)
C30_RecordCopiesArguments ==
    (last.op = "analyzeDroneSignal" /\ Classification)
        => /\ probe.out.frequency = 915000
           /\ probe.out.rssi = probe.rssi
           /\ probe.out.snr = probe.snr
           /\ probe.out.freqError = probe.freqError
           /\ probe.out.modulation = probe.currentMod

\* a record written with the receiver tuned to the band maximum in OOK
C30_Witness ==
    /\ last.op = "analyzeDroneSignal" /\ Classification
    /\ currentSweepFrequency = FREQ_900_MAX
    /\ receiver = [ configured |-> TRUE, modulation |-> MOD_OOK,
                    frequency |-> FREQ_900_MAX ]
    /\ probe.currentMod = MOD_OOK
    /\ probe.out.frequency = FREQ_900_CENTER
    /\ probe.out.modulation = MOD_OOK

(* C23: every interrupt leads to a burst-handling pass of its own: the     *)
(* number of passes that handled a burst eventually equals the number of   *)
(* interrupts that fired, and stays equal to it                            *)
C23_NoBurstLost ==
    <>[](tick.handled = tick.interrupts)

(* C24: the number of passes of loop() that handled a burst never exceeds  *)
(* the number of interrupts that have fired                                *)
C24_NoBurstCountedTwice ==
    tick.handled <= tick.interrupts

\* every interrupt handled in a pass of its own, none pending
C24_Witness ==
    /\ tick.interrupts = MaxBursts
    /\ tick.handled = tick.interrupts
    /\ ~receivedFlag
    /\ pc # "handle"

(* C25: the modulation handed to analyzeDroneSignal for a burst is the     *)
(* currentModulation at the time of the burst's interrupt                  *)
C25_BurstClassifiedAsCaptured ==
    tick.passed = tick.atCapture

\* the duties of one pass in the order the specification gives them
DutyRank(d) ==
    CASE d = "burst" -> 1 [] d = "modulation" -> 2 [] d = "display" -> 3

(* C26: in one pass of loop() the duties carried out come in the order     *)
(* burst handling, modulation switch, display refresh, each at most once   *)
(* (so at most one modulation advance per pass), and a burst handled in    *)
(* the pass is classified with the modulation the pass started with, that  *)
(* is, the one before the pass's switch                                    *)
C26_TickOrder ==
    /\ \A i, j \in 1..Len(tick.done) :
          i < j => DutyRank(tick.done[i]) < DutyRank(tick.done[j])
    /\ (\E i \in 1..Len(tick.done) : tick.done[i] = "burst")
          => tick.passed = tick.startMod

\* a pass that classified a burst and then switched the modulation
C26_Witness ==
    /\ tick.done = << "burst", "modulation" >>
    /\ last.op = "switchToNextModulation" /\ Succeeded(last)
    /\ currentModulation # tick.startMod
    /\ tick.passed = tick.startMod

(* C27: droneDetectionInit, switchToNextModulation and                     *)
(* sweepToNextFrequency issue at most one driver request per call, on      *)
(* success and on failure; loop() takes the switch timestamp anew after a  *)
(* failed switch as after a successful one, so the switch after a failed   *)
(* one comes only when a full MODULATION_SWITCH_INTERVAL has passed        *)
C27_NoRetry ==
    /\ [](\A radio \in Handles, drv \in DriverCodes :
            /\ droneDetectionInit(Engine, radio, drv).requests <= 1
            /\ switchToNextModulation(Engine, radio, SCAN_FREQUENCY, drv).requests <= 1
            /\ sweepToNextFrequency(Engine, radio, drv).requests <= 1)
    /\ [][ (pc = "modulation" /\ tick'.done # tick.done)
              => /\ last'.op = "switchToNextModulation"
                 /\ last'.requests = 1
                 /\ sinceModulationSwitch' = 0
                 /\ tick.attempt = "failed"
                      => tick.sinceAttempt > MODULATION_SWITCH_INTERVAL ]_vars

\* a switch that comes due a full interval after a failed one
C27_Witness ==
    /\ pc = "modulation"
    /\ tick.attempt = "failed"
    /\ last.op = "switchToNextModulation" /\ Failed(last)
    /\ sinceModulationSwitch > MODULATION_SWITCH_INTERVAL
    /\ tick.sinceAttempt > MODULATION_SWITCH_INTERVAL

(* C31: the frequency of a detection record is the centre frequency the   *)
(* receiver is configured to when the burst is taken, also after           *)
(* successful sweep steps have retuned the receiver                        *)
C31_RecordFrequencyIsTuned ==
    (last.op = "analyzeDroneSignal" /\ Classification /\ receiver.configured)
        => probe.out.frequency = receiver.frequency

(* C32: each of the seven entries of knownSignatures is returned by        *)
(* matchSignature for some modulation, frequency and rssi; the values      *)
(* tried are every entry's floor and band edge and their neighbours, so    *)
(* an entry returned for no such value is returned for none                *)
C32_EveryEntryReachable ==
    \A i \in 0..(NUM_SIGNATURES - 1) :
        \/ probe.fn = "matchSignature" /\ probe.ret = i
        \/ \E rssi \in RssiSamples, frequency \in FrequencySamples,
              modulation \in ModulationType :
               matchSignature(rssi, frequency, modulation) = i

(* C33: when a successful sweep step has tuned the receiver to the cursor, *)
(* a successful switchToNextModulation called with the band-centre         *)
(* frequency, as loop() calls it, leaves the receiver's frequency at the   *)
(* cursor and changes its modulation only                                  *)
C33_SwitchKeepsSweepFrequency ==
    [][ ( /\ last.op = "sweepToNextFrequency" /\ Succeeded(last)
          /\ last'.op = "switchToNextModulation" /\ Succeeded(last')
          /\ last'.frequency = FREQ_900_CENTER )
            => /\ receiver'.frequency = receiver.frequency
               /\ receiver'.frequency = currentSweepFrequency' ]_vars

(* C37: analyzeDroneSignal called with MOD_UNKNOWN reports no match, the   *)
(* name "Unknown" and the base score without the bonus, for every rssi,    *)
(* snr and freqError; and a reported match has confidence 20 or more       *)
C37_UnknownNeverMatches ==
    Classification =>
        /\ probe.currentMod = MOD_UNKNOWN =>
              /\ probe.ret = FALSE
              /\ probe.out.isDroneSignature = FALSE
              /\ probe.out.droneType = "Unknown"
              /\ probe.out.confidence =
                     calculateConfidence(probe.rssi, probe.snr, probe.freqError)
        /\ probe.out.isDroneSignature = TRUE => probe.out.confidence >= 20

\* a measurement that matches as LoRa, classified as unknown: 5 + 7 + 19
C37_Witness ==
    /\ Classification
    /\ probe.currentMod = MOD_UNKNOWN
    /\ probe.rssi = -110 /\ probe.snr = 5 /\ probe.freqError = 500
    /\ probe.ret = FALSE
    /\ probe.out.confidence = 31

\* a pass of loop() in which the switch was due and was attempted
SwitchAttempted == pc = "modulation" /\ tick'.done # tick.done

(* C34: a switch that fails from a modulation leaves it and returns it,    *)
(* and the switch that succeeds afterwards enters its successor, so every  *)
(* change of currentModulation is one step along LoRa -> FSK -> OOK ->     *)
(* LoRa and none is skipped, however many attempts failed in between       *)
C34_FailedSwitchNoSkip ==
    /\ [][ currentModulation' # currentModulation
              => currentModulation' = CycleAfter(currentModulation, 1) ]_vars
    /\ [][ SwitchAttempted
              => IF last'.state # RADIOLIB_ERR_NONE
                 THEN /\ currentModulation' = currentModulation
                      /\ last'.ret = currentModulation
                 ELSE /\ currentModulation' = CycleAfter(currentModulation, 1)
                      /\ last'.ret = currentModulation' ]_vars

\* OOK entered by the switch that followed a failed one
C34_Witness ==
    /\ tick.prevAttempt = "failed" /\ tick.attempt = "ok"
    /\ last.op = "switchToNextModulation" /\ Succeeded(last)
    /\ currentModulation = MOD_OOK
    /\ receiver.modulation = MOD_OOK

(* C35: once droneDetectionInit has succeeded, with loop() running on and  *)
(* the driver not refusing for ever, each of LoRa, FSK and OOK is          *)
(* currentModulation again and again                                       *)
C35_EveryModulationRecurs ==
    \A m \in ActiveModulations : [](isInitialized => <>(currentModulation = m))

\* the cycle closed: LoRa entered again by a switch, after another switch
C35_Witness ==
    /\ isInitialized
    /\ last.op = "switchToNextModulation" /\ Succeeded(last)
    /\ last.ret = MOD_LORA /\ currentModulation = MOD_LORA
    /\ tick.prevAttempt = "ok"

(* C36: a set receivedFlag is cleared by the pass of loop() that tests it; *)
(* every handling pass calls startReceive() whatever readData answered,    *)
(* and classifies the burst exactly when readData succeeded                *)
C36_FlagConsumed ==
    /\ receivedFlag ~> ~receivedFlag
    /\ [][ (pc = "burst" /\ receivedFlag /\ pc' # pc) => pc' = "handle" ]_vars
    /\ [][ (pc = "handle" /\ pc' # pc)
              => /\ receivedFlag' = FALSE
                 /\ tick'.restarted
                 /\ tick'.classified <=> tick'.read = RADIOLIB_ERR_NONE
                 /\ tick'.classified => last'.op = "analyzeDroneSignal"
                 /\ ~tick'.classified => probe' = probe ]_vars

\* a handling pass in which readData failed
C36_Witness ==
    /\ tick.read # RADIOLIB_ERR_NONE
    /\ tick.restarted
    /\ ~tick.classified
    /\ ~receivedFlag
    /\ tick.handled = 1 /\ tick.interrupts = 1

=============================================================================
